---------------------------- MODULE Spec2Model ----------------------------
(***************************************************************************)
(* cargo-multi-check: the feature-combination engine.                      *)
(*                                                                         *)
(* The module models main() of src/src/main.rs as a state machine:         *)
(*   RustProject::new  -> cache phase (read_cache / generate_combinations  *)
(*   / write_cache) -> cargo clean -> cargo build -> tokio::spawn of one   *)
(*   make_checks task per combination -> await of the handles -> report.   *)
(*                                                                         *)
(* Strings are sequences of one-character strings, so that sorting,        *)
(* join(" ") and split_whitespace() are computed as the code computes      *)
(* them.  A HashSet is a set, a HashMap a function on its key set; the     *)
(* iteration order of either is a nondeterministic choice.                 *)
(***************************************************************************)
EXTENDS Integers, Sequences, FiniteSets, TLC

VARIABLES
    config,               \* the configuration file: feature name -> strict flag
    manifest,             \* Cargo.toml [features]: feature name -> raw item list
    project,              \* the RustProject of the current (or last) run
    cache_file,           \* feature_combinations.cache, or NoFile
    cache_read,           \* how the last read_cache ended, and what it returned
    combinations,         \* the Vec last returned by generate_combinations
    cached_combinations,  \* the HashSet main() executes
    path,                 \* the branch the cache phase took
    last_edit,            \* what happened to the inputs since the last run
    pc,                   \* main()'s position
    workers,              \* the worker threads of the tokio runtime
    validator,            \* the outcome of `cargo check` for each combination
    handles,              \* the spawned tasks' combinations, in dispatch order
    state,                \* each task's state
    results,              \* each task's output (the JoinHandle's value)
    invocations,          \* how many times each task's validator was started
    awaited,              \* how many handles main() has awaited
    fail_list,            \* main()'s fail_list
    global_pb,            \* position of the global progress bar
    report,               \* what main() printed at the end
    exit_code             \* the process's exit status, or Alive

vars == <<config, manifest, project, cache_file, cache_read, combinations,
          cached_combinations, path, last_edit, pc, workers, validator, handles,
          state, results, invocations, awaited, fail_list, global_pb,
          report, exit_code>>

cacheVars == <<cache_file, cache_read, combinations, cached_combinations, path>>

engineVars == <<workers, validator, handles, state, results, invocations, awaited,
                fail_list, global_pb, report, exit_code>>

---------------------------------------------------------------------------
(* Bounds of the model *)

\* longest dependency list of a manifest entry
MaxDeps == 1

\* most combinations handed to the execution engine
MaxCombos == 3

\* largest configured concurrency
MaxConcurrency == 2

\* most worker threads of the tokio runtime (the machine's cores)
MaxWorkers == 2

---------------------------------------------------------------------------
(* Strings *)

Range(s) == {s[k] : k \in DOMAIN s}

\* the byte of each character the model uses
Byte(ch) ==
    CASE ch = " " -> 32
      [] ch = ":" -> 58
      [] ch = "E" -> 69
      [] ch = "W" -> 87
      [] ch = "a" -> 97
      [] ch = "b" -> 98
      [] ch = "c" -> 99
      [] ch = "d" -> 100
      [] ch = "e" -> 101
      [] ch = "p" -> 112
      [] ch = "x" -> 120
      [] ch = "y" -> 121
      [] ch = "z" -> 122

\* String's Ord: bytewise lexicographic
RECURSIVE StrLt(_, _)
StrLt(s, t) ==
    IF t = <<>> THEN FALSE
    ELSE IF s = <<>> THEN TRUE
    ELSE IF Byte(Head(s)) < Byte(Head(t)) THEN TRUE
    ELSE IF Byte(Head(s)) > Byte(Head(t)) THEN FALSE
    ELSE StrLt(Tail(s), Tail(t))

RECURSIVE Insert(_, _)
Insert(sorted, x) ==
    IF sorted = <<>> THEN <<x>>
    ELSE IF StrLt(x, Head(sorted)) THEN <<x>> \o sorted
    ELSE <<Head(sorted)>> \o Insert(Tail(sorted), x)

\* Vec<String>::sort()
RECURSIVE Sort(_)
Sort(v) ==
    IF v = <<>> THEN <<>> ELSE Insert(Sort(SubSeq(v, 1, Len(v) - 1)), v[Len(v)])

IsWhitespace(ch) == ch = " "

\* a join that puts nothing between the names
RECURSIVE Join_NoSeparator(_)
Join_NoSeparator(combo) ==
    IF combo = <<>> THEN <<>> ELSE Head(combo) \o Join_NoSeparator(Tail(combo))

\* [String]::join(" ")
RECURSIVE Join(_)
Join(combo) ==
    IF combo = <<>> THEN <<>>
    ELSE IF Len(combo) = 1 THEN combo[1]
    ELSE combo[1] \o <<" ">> \o Join(Tail(combo))

\* str::split_whitespace().collect(): `word` is the word being read
RECURSIVE SplitFrom(_, _)
SplitFrom(line, word) ==
    IF line = <<>> THEN (IF word = <<>> THEN <<>> ELSE <<word>>)
    ELSE IF IsWhitespace(Head(line))
         THEN (IF word = <<>> THEN <<>> ELSE <<word>>) \o SplitFrom(Tail(line), <<>>)
         ELSE SplitFrom(Tail(line), Append(word, Head(line)))

SplitWhitespace(line) == SplitFrom(line, <<>>)

\* every sequence over S of length at most n
SeqsUpTo(S, n) == UNION {[1..k -> S] : k \in 0..n}

\* every ordering of a finite set (the iteration orders of a HashSet or HashMap)
Orders(S) == {o \in [1..Cardinality(S) -> S] : Range(o) = S}

---------------------------------------------------------------------------
(* Files and values *)

\* the feature names the model draws from
Names == {<<"a">>, <<"a", "b">>, <<"b">>}

\* the feature names of the runs that follow each other
RunNames == {<<"a">>, <<"b">>}

\* a manifest item naming an optional dependency: "dep:a"
DepA == <<"d", "e", "p", ":", "a">>

\* no cache file in the working directory
NoFile == [exists |-> FALSE, hash |-> <<>>, lines |-> {}]

\* read_cache has not been called
NoRead == [kind |-> "none", hash |-> <<>>, combinations |-> {}]

\* main() has not built its RustProject yet
NoProject ==
    [created |-> FALSE, hash |-> <<>>, configs |-> [concurrency |-> 1, clean |-> FALSE],
     features |-> <<>>, extra_features |-> <<>>, dependencies |-> <<>>]

\* exit_code while the process runs
Alive == -1

---------------------------------------------------------------------------
(* RustProject::new *)

\* categorize_features without its two sorts
categorize_features_Unsorted(features, order) ==
    <<SelectSeq(order, LAMBDA f : features[f].strict),
      SelectSeq(order, LAMBDA f : ~features[f].strict)>>

\* the loop of categorize_features over the HashMap, in iteration order `order`,
\* then the two sorts
categorize_features(features, order) ==
    LET main_features == SelectSeq(order, LAMBDA f : features[f].strict)
        extra_features == SelectSeq(order, LAMBDA f : ~features[f].strict)
    IN  <<Sort(main_features), Sort(extra_features)>>

StartsWithDep(item) ==
    Len(item) >= 4 /\ SubSeq(item, 1, 4) = <<"d", "e", "p", ":">>

\* the filter_map over one entry's comma-separated items
ParseDeps(items) ==
    SelectSeq(items, LAMBDA t : ~(t = <<>> \/ StartsWithDep(t)))

\* the pseudo-feature "default"
Default == <<"d", "e", "f", "a", "u", "l", "t">>

\* the entries extract_dependencies warns about ("Warning: Feature {} is not in
\* list of tested features"), in the order of the lines
Warnings(lines, features) ==
    SelectSeq([k \in DOMAIN lines |-> lines[k].feature],
              LAMBDA feature : feature \notin features /\ feature # Default)

\* the lines of the [features] section, read in order; every entry is inserted
\* (the warned ones too), a later entry of the same key replacing an earlier one
RECURSIVE extract_dependencies(_, _)
extract_dependencies(lines, dependencies) ==
    IF lines = <<>> THEN dependencies
    ELSE LET line == Head(lines)
         IN  extract_dependencies(Tail(lines),
                 (line.feature :> ParseDeps(line.items)) @@ dependencies)

\* what Hasher::write_usize and Hasher::write_str feed the hasher
WriteUsize(n) == [tag |-> "usize", n |-> n, s |-> <<>>]

WriteStr(x) == [tag |-> "str", n |-> 0, s |-> x]

\* <[String] as Hash>::hash: the length prefix, then every element
HashSlice(v) == <<WriteUsize(Len(v))>> \o [k \in 1..Len(v) |-> WriteStr(v[k])]

RECURSIVE HashDeps(_, _)
HashDeps(features, dependencies) ==
    IF features = <<>> THEN <<>>
    ELSE (IF Head(features) \in DOMAIN dependencies
          THEN HashSlice(dependencies[Head(features)])
          ELSE <<>>) \o HashDeps(Tail(features), dependencies)

\* the digest is represented by the data fed to the hasher: DefaultHasher::new()
\* has fixed keys, and the digest is taken to be injective on that data
hash_features(features, dependencies) ==
    HashSlice(features) \o HashDeps(features, dependencies)

ManifestLines(order) == [k \in 1..Len(order) |-> [feature |-> order[k], items |-> manifest[order[k]]]]

RustProject(global, features, extra, dependencies) ==
    [created |-> TRUE,
     hash |-> hash_features(features, dependencies),
     configs |-> global,
     features |-> features,
     extra_features |-> extra,
     dependencies |-> dependencies]

NewProject ==
    /\ pc = "start"
    /\ \E order \in Orders(DOMAIN config.features) :
       \E lineOrder \in Orders(DOMAIN manifest) :
          LET cat == categorize_features(config.features, order)
          IN  project' = RustProject(config.global, cat[1], cat[2],
                             extract_dependencies(ManifestLines(lineOrder), <<>>))
    /\ pc' = "cache"
    /\ UNCHANGED <<config, manifest, last_edit>>
    /\ UNCHANGED cacheVars
    /\ UNCHANGED engineVars

---------------------------------------------------------------------------
(* generate_combinations *)

\* i & (1 << j) != 0
Bit(i, j) == (i \div (2 ^ j)) % 2 = 1

\* a lookup that finds no dependency list
DepsOf_None(dependencies, feature) == {}

DepsOf(dependencies, feature) ==
    IF feature \in DOMAIN dependencies THEN Range(dependencies[feature]) ELSE {}

\* a pass that pushes every feature of the subset, excluded already or not
RECURSIVE FirstPass_NoSkip(_, _, _, _, _)
FirstPass_NoSkip(p, i, j, combo, exclude) ==
    IF j >= Len(p.features) THEN [combo |-> combo, exclude |-> exclude]
    ELSE LET feature == p.features[j + 1]
         IN  IF Bit(i, j)
             THEN FirstPass_NoSkip(p, i, j + 1, Append(combo, feature),
                                   exclude \cup DepsOf(p.dependencies, feature))
             ELSE FirstPass_NoSkip(p, i, j + 1, combo, exclude)

\* the loop over j of one subset index i: combo and exclude after it
RECURSIVE FirstPass(_, _, _, _, _)
FirstPass(p, i, j, combo, exclude) ==
    IF j >= Len(p.features) THEN [combo |-> combo, exclude |-> exclude]
    ELSE LET feature == p.features[j + 1]
         IN  IF Bit(i, j) /\ feature \notin exclude
             THEN FirstPass(p, i, j + 1, Append(combo, feature),
                            exclude \cup DepsOf(p.dependencies, feature))
             ELSE FirstPass(p, i, j + 1, combo, exclude)

filtered_combo(p, i) ==
    LET r == FirstPass(p, i, 0, <<>>, {})
    IN  SelectSeq(r.combo, LAMBDA f : f \notin r.exclude)

\* extended combinations that pile the extra features up
Extended_PiledUp(filtered, extras) ==
    [k \in 1..Len(extras) |-> filtered \o SubSeq(extras, 1, k)]

\* one extended_combo per extra feature
Extended(filtered, extras) ==
    [k \in 1..Len(extras) |-> Append(filtered, extras[k])]

\* a subset index that pushes its pruned combination even when it is empty
SubsetCombos_KeepEmpty(p, i) ==
    LET filtered == filtered_combo(p, i)
    IN  Extended(filtered, p.extra_features) \o <<filtered>>

\* what one subset index pushes on `combinations`
SubsetCombos(p, i) ==
    LET filtered == filtered_combo(p, i)
    IN  IF filtered # <<>>
        THEN Extended(filtered, p.extra_features) \o <<filtered>>
        ELSE <<>>

\* the subset loop stopping one index early
LoopEnd_OffByOne(n) == 2 ^ n - 1

\* 1 << n (n stays far below the width of the integer)
LoopEnd(n) == 2 ^ n

\* for i in 1..(1 << n)
RECURSIVE SubsetLoop(_, _)
SubsetLoop(p, i) ==
    IF i >= LoopEnd(Len(p.features)) THEN <<>>
    ELSE SubsetCombos(p, i) \o SubsetLoop(p, i + 1)

\* the loop after the subset loop left out
ExtraOnly_Missing(extras) == <<>>

\* "Add extra features only"
ExtraOnly(extras) == [k \in 1..Len(extras) |-> <<extras[k]>>]

generate_combinations(p) == SubsetLoop(p, 1) \o ExtraOnly(p.extra_features)

\* combinations.into_iter().collect::<HashSet<_>>()
Unique(v) == Range(v)

---------------------------------------------------------------------------
(* The cache file *)

\* the file starts with the fingerprint; `lines` are the lines after it (their
\* order is the HashSet's iteration order, and read_cache collects them in a
\* HashSet again)
write_cache(hash, combos) ==
    [exists |-> TRUE, hash |-> hash, lines |-> {Join(combo) : combo \in combos}]

read_cache(file) ==
    [kind |-> "Ok", hash |-> file.hash,
     combinations |-> {SplitWhitespace(line) : line \in file.lines}]

\* "Using cached combinations"
CacheHit ==
    /\ pc = "cache"
    /\ cache_file.exists
    /\ project.hash = read_cache(cache_file).hash
    /\ cache_read' = read_cache(cache_file)
    /\ cached_combinations' = cache_read'.combinations
    /\ path' = "hit"
    /\ pc' = "cached"
    /\ UNCHANGED <<config, manifest, project, last_edit, cache_file, combinations>>
    /\ UNCHANGED engineVars

\* a regeneration that keeps the combinations of the record it replaces
Regenerate_KeepOld(branch) ==
    /\ combinations' = generate_combinations(project)
    /\ cached_combinations' = Unique(combinations') \cup read_cache(cache_file).combinations
    /\ cache_file' = write_cache(project.hash, cached_combinations')
    /\ path' = branch
    /\ pc' = "cached"
    /\ UNCHANGED <<config, manifest, project, last_edit>>
    /\ UNCHANGED engineVars

\* generate_combinations, the collect into a HashSet and write_cache
Regenerate(branch) ==
    /\ combinations' = generate_combinations(project)
    /\ cached_combinations' = Unique(combinations')
    /\ cache_file' = write_cache(project.hash, Unique(combinations'))
    /\ path' = branch
    /\ pc' = "cached"
    /\ UNCHANGED <<config, manifest, project, last_edit>>
    /\ UNCHANGED engineVars

\* "Features have changed, regenerating combinations"
CacheMismatch ==
    /\ pc = "cache"
    /\ cache_file.exists
    /\ project.hash # read_cache(cache_file).hash
    /\ cache_read' = read_cache(cache_file)
    /\ Regenerate("regenerated")

\* "No cache found, generating combinations"
CacheAbsent ==
    /\ pc = "cache"
    /\ ~cache_file.exists
    /\ UNCHANGED cache_read
    /\ Regenerate("generated")

\* the process ends without having spawned any task
Abort(status) ==
    /\ pc' = "exit"
    /\ exit_code' = status
    /\ UNCHANGED <<config, manifest, last_edit>>
    /\ UNCHANGED <<workers, validator, handles, state, results, invocations,
                   awaited, fail_list, global_pb, report>>

\* RustProject::new(..).expect("Failed to create Rust project") on an Err: the
\* project path or the manifest cannot be opened or read, the configuration
\* file is missing (NotFound) or is not valid TOML (InvalidData)
NewProjectFails ==
    /\ pc = "start"
    /\ Abort(101)
    /\ UNCHANGED project
    /\ UNCHANGED cacheVars

\* read_cache(cache_file).expect("Failed to read cache") on a file that is
\* there: read_cache returns Err, or panics itself
CacheReadFails ==
    /\ pc = "cache"
    /\ cache_file.exists
    /\ \E kind \in {"Err", "panic"} :
          cache_read' = [kind |-> kind, hash |-> <<>>, combinations |-> {}]
    /\ Abort(101)
    /\ UNCHANGED <<project, cache_file, combinations, cached_combinations, path>>

\* write_cache(..).expect("Failed to write cache") on an Err: File::create
\* fails, on either regenerating branch
CacheWriteFails ==
    /\ pc = "cache"
    /\ \/ /\ ~cache_file.exists
          /\ UNCHANGED cache_read
       \/ /\ cache_file.exists
          /\ project.hash # read_cache(cache_file).hash
          /\ cache_read' = read_cache(cache_file)
    /\ combinations' = generate_combinations(project)
    /\ Abort(101)
    /\ UNCHANGED <<project, cache_file, cached_combinations, path>>

---------------------------------------------------------------------------
(* Runs that follow each other in one working directory *)

\* nothing printed yet
NoReport == [printed |-> FALSE, passed |-> FALSE, failures |-> <<>>]

EngineIdle ==
    /\ workers = 1
    /\ validator = <<>>
    /\ handles = <<>>
    /\ state = <<>>
    /\ results = <<>>
    /\ invocations = <<>>
    /\ awaited = 0
    /\ fail_list = <<>>
    /\ global_pb = 0
    /\ report = NoReport
    /\ exit_code = Alive

DefaultGlobal == [concurrency |-> 1, clean |-> FALSE]

\* a configuration file over the feature names S
Configs(S) ==
    {[global |-> DefaultGlobal, features |-> f] :
        f \in UNION {[D -> [strict : BOOLEAN]] : D \in SUBSET S}}

\* the item lists of the manifests of the runs
RunItems == {<<>>, <<<<"a">>>>, <<<<"b">>>>, <<DepA, <<"a">>>>}

RunManifests == UNION {[D -> RunItems] : D \in SUBSET RunNames}

\* the user runs the tool again, on the same files or on edited ones; what the
\* rest of main() did after the cache phase changed none of the files, and the
\* new process has read nothing yet
Rerun ==
    /\ pc = "cached"
    /\ \/ /\ UNCHANGED <<config, manifest>>
          /\ last_edit' = "none"
       \/ /\ config' \in Configs(RunNames)
          /\ manifest' \in RunManifests
          /\ <<config', manifest'>> # <<config, manifest>>
          /\ last_edit' = "edited"
    /\ pc' = "start"
    /\ cache_read' = NoRead
    /\ UNCHANGED <<project, cache_file, combinations, cached_combinations, path>>
    /\ UNCHANGED engineVars

InitRuns ==
    /\ config \in Configs(RunNames)
    /\ manifest \in RunManifests
    /\ project = NoProject
    /\ cache_file = NoFile
    /\ cache_read = NoRead
    /\ combinations = <<>>
    /\ cached_combinations = {}
    /\ path = "none"
    /\ last_edit = "first"
    /\ pc = "start"
    /\ EngineIdle

NextRuns == NewProject \/ CacheHit \/ CacheMismatch \/ CacheAbsent \/ Rerun

SpecRuns == InitRuns /\ [][NextRuns]_vars

---------------------------------------------------------------------------
(* generate_combinations on every project over Names *)

\* the sorted Vec of a set of names
SortedVec(S) == Sort(CHOOSE o \in Orders(S) : TRUE)

InitGen ==
    /\ \E strict \in SUBSET Names :
       \E extra \in SUBSET (Names \ strict) :
       \E D \in SUBSET (strict \cup extra) :
       \E deps \in [D -> SeqsUpTo(Names, MaxDeps)] :
          /\ config = [global |-> DefaultGlobal,
                       features |-> [f \in strict \cup extra |-> [strict |-> f \in strict]]]
          /\ manifest = deps
          /\ project = RustProject(DefaultGlobal, SortedVec(strict), SortedVec(extra), deps)
    /\ cache_file = NoFile
    /\ cache_read = NoRead
    /\ combinations = <<>>
    /\ cached_combinations = {}
    /\ path = "none"
    /\ last_edit = "first"
    /\ pc = "cache"
    /\ EngineIdle

NextGen == CacheAbsent

SpecGen == InitGen /\ [][NextGen]_vars

---------------------------------------------------------------------------
(* The text of the cache file: cache.rs on files of any content *)

DigitChars == <<"0", "1", "2", "3", "4", "5", "6", "7", "8", "9">>

IsDigit(ch) == \E d \in 1..10 : DigitChars[d] = ch

DigitValue(ch) == (CHOOSE d \in 1..10 : DigitChars[d] = ch) - 1

\* u64::MAX, 18446744073709551615, digit by digit
U64MaxDigits == <<1, 8, 4, 4, 6, 7, 4, 4, 0, 7, 3, 7, 0, 9, 5, 5, 1, 6, 1, 5>>

\* a line that is not valid UTF-8 is a line holding this character
BadUtf8 == "?"

\* "{}" of a u64: its decimal digits
RECURSIVE FormatU64(_)
FormatU64(n) ==
    IF n < 10 THEN <<DigitChars[n + 1]>>
    ELSE Append(FormatU64(n \div 10), DigitChars[(n % 10) + 1])

RECURSIVE StripZeros(_)
StripZeros(digits) ==
    IF digits # <<>> /\ Head(digits) = 0 THEN StripZeros(Tail(digits)) ELSE digits

\* the digits d (without leading zeros) are above those of m
RECURSIVE DigitsAbove(_, _)
DigitsAbove(d, m) ==
    IF Len(d) # Len(m) THEN Len(d) > Len(m)
    ELSE IF d = <<>> THEN FALSE
    ELSE IF Head(d) # Head(m) THEN Head(d) > Head(m)
    ELSE DigitsAbove(Tail(d), Tail(m))

RECURSIVE Horner(_, _)
Horner(digits, acc) ==
    IF digits = <<>> THEN acc ELSE Horner(Tail(digits), acc * 10 + Head(digits))

\* str::parse::<u64>(): an optional "+", then one digit or more, no overflow
\* (the value is computed for the numbers the model's integers hold)
ParseU64(text) ==
    LET body == IF text # <<>> /\ Head(text) = "+" THEN Tail(text) ELSE text
    IN  IF body = <<>> \/ \E k \in DOMAIN body : ~IsDigit(body[k])
        THEN [ok |-> FALSE, value |-> 0]
        ELSE LET digits == StripZeros([k \in DOMAIN body |-> DigitValue(body[k])])
             IN  IF DigitsAbove(digits, U64MaxDigits)
                 THEN [ok |-> FALSE, value |-> 0]
                 ELSE [ok |-> TRUE, value |-> Horner(digits, 0)]

\* how a call of read_cache can end
ReadErr == [kind |-> "Err", hash |-> 0, combinations |-> {}]

ReadPanic == [kind |-> "panic", hash |-> 0, combinations |-> {}]

\* the `for line in lines` loop: the first line that cannot be read ends it
LinesReadable(text) == \A k \in DOMAIN text : BadUtf8 \notin Range(text[k])

\* write_cache: the fingerprint's line, then one line per combination in the
\* HashSet's iteration order `order`
write_cache_file(hash, order) ==
    [exists |-> TRUE,
     text |-> <<FormatU64(hash)>> \o [k \in DOMAIN order |-> Join(order[k])]]

\* read_cache on a file of any content
read_cache_file(file) ==
    IF ~file.exists THEN ReadErr
    ELSE IF file.text = <<>> THEN ReadPanic
    ELSE IF BadUtf8 \in Range(Head(file.text)) THEN ReadErr
    ELSE IF ~ParseU64(Head(file.text)).ok THEN ReadPanic
    ELSE IF ~LinesReadable(Tail(file.text)) THEN ReadErr
    ELSE [kind |-> "Ok",
          hash |-> ParseU64(Head(file.text)).value,
          combinations |-> {SplitWhitespace(line) : line \in Range(Tail(file.text))}]

\* the fingerprints written
CacheHashes == {0, 7, 10, 1905, 2147483647}

\* the combinations written: one or two names, a name of two characters, no
\* name at all, and a name that holds a space
CacheCombos ==
    { <<<<"a">>>>, <<<<"a">>, <<"b">>>>, <<<<"b">>, <<"a">>>>, <<<<"a", "b">>>>,
      <<>>, <<<<"a", " ", "b">>>> }

\* the cache files found in the working directory: missing, empty, an empty
\* first line, a word, a negative number, a number followed by a space, bytes
\* that are no text, u64::MAX + 1, and two files with a valid first line
CacheFiles ==
    { [exists |-> FALSE, text |-> <<>>],
      [exists |-> TRUE, text |-> <<>>],
      [exists |-> TRUE, text |-> << <<>> >>],
      [exists |-> TRUE, text |-> << <<"x">> >>],
      [exists |-> TRUE, text |-> << <<"-", "1">> >>],
      [exists |-> TRUE, text |-> << <<"7", " ">> >>],
      [exists |-> TRUE, text |-> << <<BadUtf8>> >>],
      [exists |-> TRUE,
       text |-> << <<"1", "8", "4", "4", "6", "7", "4", "4", "0", "7", "3", "7",
                     "0", "9", "5", "5", "1", "6", "1", "6">> >>],
      [exists |-> TRUE, text |-> << <<"+", "0", "7">>, <<"a", " ", " ", "b">>, <<"b">> >>],
      [exists |-> TRUE, text |-> << <<"7">>, <<"a">>, <<BadUtf8>> >>] }

\* write_cache(cache_file, hash, &combinations) returning Ok
WriteCacheFile ==
    /\ pc = "write"
    /\ \E order \in Orders(cached_combinations) :
          cache_file' = write_cache_file(project.hash, order)
    /\ pc' = "read"
    /\ UNCHANGED <<config, manifest, project, last_edit, cache_read, combinations,
                   cached_combinations, path>>
    /\ UNCHANGED engineVars

\* read_cache(cache_file)
ReadCacheFile ==
    /\ pc = "read"
    /\ cache_read' = read_cache_file(cache_file)
    /\ pc' = "done"
    /\ UNCHANGED <<config, manifest, project, last_edit, cache_file, combinations,
                   cached_combinations, path>>
    /\ UNCHANGED engineVars

\* a file found and read, or a record written and read back
InitCache ==
    /\ config = [global |-> DefaultGlobal, features |-> <<>>]
    /\ manifest = <<>>
    /\ \E hash \in CacheHashes : project = [NoProject EXCEPT !.created = TRUE, !.hash = hash]
    /\ cached_combinations \in SUBSET CacheCombos
    /\ Cardinality(cached_combinations) <= MaxCombos
    /\ \/ pc = "write" /\ cache_file = [exists |-> FALSE, text |-> <<>>]
       \/ pc = "read" /\ cache_file \in CacheFiles /\ cached_combinations = {}
    /\ cache_read = [kind |-> "none", hash |-> 0, combinations |-> {}]
    /\ combinations = <<>>
    /\ path = "none"
    /\ last_edit = "first"
    /\ EngineIdle

NextCache == WriteCacheFile \/ ReadCacheFile

SpecCache == InitCache /\ [][NextCache]_vars

---------------------------------------------------------------------------
(* The execution engine *)

Finished == {"Succeeded", "Failed"}

Running == {k \in DOMAIN state : state[k] = "Running"}

\* the spinner of the task dispatched as number k (the code counts from 0)
Lane(k) == (k - 1) % project.configs.concurrency

\* a failed `cargo clean` that ends the process with status 0
Clean_ExitZero ==
    /\ pc = "cached"
    /\ \/ /\ ~project.configs.clean
          /\ pc' = "build"
          /\ UNCHANGED exit_code
       \/ /\ project.configs.clean
          /\ pc' = "build"
          /\ UNCHANGED exit_code
       \/ /\ project.configs.clean
          /\ pc' = "exit"
          /\ exit_code' = 0
    /\ UNCHANGED <<config, manifest, project, last_edit>>
    /\ UNCHANGED cacheVars
    /\ UNCHANGED <<workers, validator, handles, state, results, invocations,
                   awaited, fail_list, global_pb, report>>

\* clear_project: `cargo clean` when the configuration asks for it
Clean ==
    /\ pc = "cached"
    /\ \/ /\ ~project.configs.clean
          /\ pc' = "build"
          /\ UNCHANGED exit_code
       \/ /\ project.configs.clean
          /\ pc' = "build"
          /\ UNCHANGED exit_code
       \/ /\ project.configs.clean
          /\ pc' = "exit"
          /\ exit_code' = 1
    /\ UNCHANGED <<config, manifest, project, last_edit>>
    /\ UNCHANGED cacheVars
    /\ UNCHANGED <<workers, validator, handles, state, results, invocations,
                   awaited, fail_list, global_pb, report>>

\* run_cargo_build(..).await.expect("Failed to build project")
Build ==
    /\ pc = "build"
    /\ \/ /\ pc' = "spawn"
          /\ UNCHANGED exit_code
       \/ /\ pc' = "exit"
          /\ exit_code' = 101
    /\ UNCHANGED <<config, manifest, project, last_edit>>
    /\ UNCHANGED cacheVars
    /\ UNCHANGED <<workers, validator, handles, state, results, invocations,
                   awaited, fail_list, global_pb, report>>

\* the dispatch loop: one tokio::spawn per combination, in the HashSet's
\* iteration order; fail_list starts empty
Spawn ==
    /\ pc = "spawn"
    /\ \E order \in Orders(cached_combinations) :
          /\ handles' = order
          /\ state' = [k \in DOMAIN order |-> "Pending"]
          /\ results' = [k \in DOMAIN order |-> [done |-> FALSE, ok |-> FALSE, error |-> <<>>, combination |-> <<>>]]
          /\ invocations' = [k \in DOMAIN order |-> 0]
    /\ awaited' = 0
    /\ fail_list' = <<>>
    /\ global_pb' = 0
    /\ pc' = "join"
    /\ UNCHANGED <<config, manifest, project, last_edit>>
    /\ UNCHANGED cacheVars
    /\ UNCHANGED <<workers, validator, report, exit_code>>

\* a free worker thread takes the oldest task of the run queue; with several
\* free threads the tasks they took begin in any order
CanStart(k) ==
    /\ state[k] = "Pending"
    /\ Cardinality({j \in 1..(k - 1) : state[j] = "Pending"})
          < workers - Cardinality(Running)

\* a worker thread polls the task: make_checks starts `cargo check`
TaskStart(k) ==
    /\ pc = "join"
    /\ CanStart(k)
    /\ state' = [state EXCEPT ![k] = "Running"]
    /\ invocations' = [invocations EXCEPT ![k] = @ + 1]
    /\ UNCHANGED <<config, manifest, project, last_edit, pc>>
    /\ UNCHANGED cacheVars
    /\ UNCHANGED <<workers, validator, handles, results, awaited, fail_list,
                   global_pb, report, exit_code>>

\* what make_checks returns for the output of `cargo check`
MakeChecksResult(combo, output) ==
    IF output.success
    THEN [done |-> TRUE, ok |-> TRUE, error |-> <<>>, combination |-> <<>>]
    ELSE [done |-> TRUE, ok |-> FALSE, error |-> output.stderr, combination |-> combo]

\* a failed check put back in the queue
TaskFinish_Retry(k) ==
    /\ pc = "join"
    /\ state[k] = "Running"
    /\ LET output == validator[handles[k]]
       IN  IF output.success
           THEN /\ results' = [results EXCEPT ![k] = MakeChecksResult(handles[k], output)]
                /\ state' = [state EXCEPT ![k] = "Succeeded"]
                /\ global_pb' = global_pb + 1
           ELSE /\ state' = [state EXCEPT ![k] = "Pending"]
                /\ UNCHANGED <<results, global_pb>>
    /\ UNCHANGED <<config, manifest, project, last_edit, pc>>
    /\ UNCHANGED cacheVars
    /\ UNCHANGED <<workers, validator, handles, invocations, awaited, fail_list,
                   report, exit_code>>

\* a make_checks whose failure branch leaves the progress bar alone
TaskFinish_SilentFailure(k) ==
    /\ pc = "join"
    /\ state[k] = "Running"
    /\ LET output == validator[handles[k]]
       IN  /\ results' = [results EXCEPT ![k] = MakeChecksResult(handles[k], output)]
           /\ state' = [state EXCEPT ![k] = IF output.success THEN "Succeeded" ELSE "Failed"]
           /\ global_pb' = IF output.success THEN global_pb + 1 ELSE global_pb
    /\ UNCHANGED <<config, manifest, project, last_edit, pc>>
    /\ UNCHANGED cacheVars
    /\ UNCHANGED <<workers, validator, handles, invocations, awaited, fail_list,
                   report, exit_code>>

\* wait_with_output returns: the progress bar moves and the task ends
TaskFinish(k) ==
    /\ pc = "join"
    /\ state[k] = "Running"
    /\ LET output == validator[handles[k]]
       IN  /\ results' = [results EXCEPT ![k] = MakeChecksResult(handles[k], output)]
           /\ state' = [state EXCEPT ![k] = IF output.success THEN "Succeeded" ELSE "Failed"]
    /\ global_pb' = global_pb + 1
    /\ UNCHANGED <<config, manifest, project, last_edit, pc>>
    /\ UNCHANGED cacheVars
    /\ UNCHANGED <<workers, validator, handles, invocations, awaited, fail_list,
                   report, exit_code>>

\* an entry pushed for every handle, failed or not
Collect_EveryResult(list, result) ==
    Append(list, [combination |-> result.combination, message |-> result.error])

\* what one handle's value adds to fail_list
Collect(list, result) ==
    IF result.ok THEN list
    ELSE Append(list, [combination |-> result.combination, message |-> result.error])

\* handle.await of the next handle, once its task has ended
AwaitHandle ==
    /\ pc = "join"
    /\ awaited < Len(handles)
    /\ results[awaited + 1].done
    /\ fail_list' = Collect(fail_list, results[awaited + 1])
    /\ awaited' = awaited + 1
    /\ UNCHANGED <<config, manifest, project, last_edit, pc>>
    /\ UNCHANGED cacheVars
    /\ UNCHANGED <<workers, validator, handles, state, results, invocations,
                   global_pb, report, exit_code>>

\* every handle has been awaited: "All checks passed", or the failures and exit(1)
Report ==
    /\ pc = "join"
    /\ awaited = Len(handles)
    /\ report' = [printed |-> TRUE, passed |-> fail_list = <<>>, failures |-> fail_list]
    /\ exit_code' = IF fail_list = <<>> THEN 0 ELSE 1
    /\ pc' = "exit"
    /\ UNCHANGED <<config, manifest, project, last_edit>>
    /\ UNCHANGED cacheVars
    /\ UNCHANGED <<workers, validator, handles, state, results, invocations,
                   awaited, fail_list, global_pb>>

\* the combinations a cache file may hand to the engine
ComboPool ==
    << <<<<"a">>>>, <<<<"a">>, <<"b">>>>, <<<<"b">>>>, <<<<"a", "b">>>>,
       <<<<"a", "b">>, <<"b">>>> >>

\* `cargo check` succeeds (warnings on stderr), or fails with its errors
Outcome(combo, fails) ==
    IF fails THEN [success |-> FALSE, stderr |-> <<"E", " ">> \o Join(combo)]
    ELSE [success |-> TRUE, stderr |-> <<"W">>]

InitExec ==
    /\ \E concurrency \in 1..MaxConcurrency :
       \E clean \in BOOLEAN :
          /\ config = [global |-> [concurrency |-> concurrency, clean |-> clean],
                       features |-> (<<"a">> :> [strict |-> TRUE]) @@ (<<"b">> :> [strict |-> FALSE])]
          /\ manifest = <<>>
          /\ project = RustProject(config.global, <<<<"a">>>>, <<<<"b">>>>, <<>>)
    /\ \E n \in 0..MaxCombos :
          cached_combinations = {ComboPool[k] : k \in 1..n}
    /\ cache_file = write_cache(project.hash, cached_combinations)
    /\ cache_read = read_cache(cache_file)
    /\ combinations = <<>>
    /\ path = "hit"
    /\ last_edit = "none"
    /\ pc = "cached"
    /\ workers \in 1..MaxWorkers
    /\ \E failing \in SUBSET cached_combinations :
          validator = [combo \in cached_combinations |-> Outcome(combo, combo \in failing)]
    /\ handles = <<>>
    /\ state = <<>>
    /\ results = <<>>
    /\ invocations = <<>>
    /\ awaited = 0
    /\ fail_list = <<>>
    /\ global_pb = 0
    /\ report = NoReport
    /\ exit_code = Alive

NextExec ==
    \/ Clean
    \/ Build
    \/ Spawn
    \/ \E k \in DOMAIN state : TaskStart(k)
    \/ \E k \in DOMAIN state : TaskFinish(k)
    \/ AwaitHandle
    \/ Report

SpecExec == InitExec /\ [][NextExec]_vars

\* the tokio scheduler runs every spawned task, every `cargo check` returns,
\* and main() goes on whenever it can
FairSpecExec == SpecExec /\ WF_vars(NextExec)

---------------------------------------------------------------------------
(* main() from its first line to its last *)

\* the configuration files of a whole run: "a" strict, "b" strict or extra
MainConfigs ==
    {[global |-> [concurrency |-> concurrency, clean |-> clean],
      features |-> (<<"a">> :> [strict |-> TRUE]) @@ (<<"b">> :> [strict |-> bStrict])] :
        concurrency \in 1..MaxConcurrency, clean \in BOOLEAN, bStrict \in BOOLEAN}

\* the manifests of a whole run: no dependency, or "a" enabling "b"
MainManifests ==
    {(<<"a">> :> <<>>) @@ (<<"b">> :> <<>>),
     (<<"a">> :> <<<<"b">>>>) @@ (<<"b">> :> <<>>)}

\* the project RustProject::new builds of a configuration and a manifest
ProjectOf(c, m) ==
    LET cat == categorize_features(c.features, SortedVec(DOMAIN c.features))
    IN  RustProject(c.global, cat[1], cat[2], [f \in DOMAIN m |-> ParseDeps(m[f])])

\* the cache file an earlier run on the project p left
LeftBy(p) == write_cache(p.hash, Unique(generate_combinations(p)))

\* which validators fail
MainFailing == {{}, {<<<<"a">>>>}, {<<<<"a">>, <<"b">>>>, <<<<"b">>>>}}

InitMain ==
    /\ config \in MainConfigs
    /\ manifest \in MainManifests
    /\ project = NoProject
    /\ cache_file \in {NoFile} \cup {LeftBy(ProjectOf(c, m)) : c \in MainConfigs, m \in MainManifests}
    /\ cache_read = NoRead
    /\ combinations = <<>>
    /\ cached_combinations = {}
    /\ path = "none"
    /\ last_edit = "first"
    /\ pc = "start"
    /\ workers \in 1..MaxWorkers
    /\ \E failing \in MainFailing :
          validator = [combo \in {<<<<"a">>>>, <<<<"b">>>>, <<<<"a">>, <<"b">>>>}
                          |-> Outcome(combo, combo \in failing)]
    /\ handles = <<>>
    /\ state = <<>>
    /\ results = <<>>
    /\ invocations = <<>>
    /\ awaited = 0
    /\ fail_list = <<>>
    /\ global_pb = 0
    /\ report = NoReport
    /\ exit_code = Alive

NextMain ==
    \/ NewProject
    \/ NewProjectFails
    \/ CacheHit
    \/ CacheMismatch
    \/ CacheAbsent
    \/ CacheReadFails
    \/ CacheWriteFails
    \/ Clean
    \/ Build
    \/ Spawn
    \/ \E k \in DOMAIN state : TaskStart(k)
    \/ \E k \in DOMAIN state : TaskFinish(k)
    \/ AwaitHandle
    \/ Report

SpecMain == InitMain /\ [][NextMain]_vars

---------------------------------------------------------------------------
(* Claims about the execution engine *)

\* the combination dispatched just before k on k's lane
PreviousInLane(j, k) ==
    /\ j < k
    /\ Lane(j) = Lane(k)
    /\ \A m \in (j + 1)..(k - 1) : Lane(m) # Lane(k)

\* C1: a combination's validator never begins before the previous combination
\* assigned to the same lane (dispatch number mod concurrency) has reached
\* Succeeded or Failed.
C1_LaneSequential ==
    \A k \in DOMAIN state : \A j \in DOMAIN state :
        (PreviousInLane(j, k) /\ state[k] # "Pending") => state[j] \in Finished

\* C2: at most `concurrency` validators are Running at the same time.
C2_RunningBounded ==
    Cardinality(Running) <= project.configs.concurrency

AllFinished == \A k \in DOMAIN state : state[k] \in Finished

\* a task only moves Pending -> Running -> Succeeded or Failed
TaskStepOK ==
    \A k \in (DOMAIN state) \cap (DOMAIN state') :
        \/ state'[k] = state[k]
        \/ state[k] = "Pending" /\ state'[k] = "Running"
        \/ state[k] = "Running" /\ state'[k] \in Finished

\* every combination of the set is one task, started at most once, and exactly
\* once when it has finished; the report comes after every task has finished
ValidatedOnce ==
    /\ pc \in {"join", "exit"} /\ handles # <<>> =>
          /\ Range(handles) = cached_combinations
          /\ Len(handles) = Cardinality(cached_combinations)
    /\ \A k \in DOMAIN state :
          /\ invocations[k] = (IF state[k] = "Pending" THEN 0 ELSE 1)
          /\ state[k] = "Failed" <=> (results[k].done /\ ~validator[handles[k]].success)
          /\ state[k] = "Succeeded" <=> (results[k].done /\ validator[handles[k]].success)
    /\ report.printed =>
          /\ Range(handles) = cached_combinations
          /\ AllFinished

\* C3: every combination of the set is validated exactly once and moves
\* Pending -> Running -> Succeeded or Failed; a failure is not retried and stops
\* no other combination; the report is produced only after every combination
\* has finished, and (every validator returning) it is produced.
C3_ValidatedOnceThenReport ==
    /\ [][TaskStepOK]_vars
    /\ []ValidatedOnce
    /\ (pc = "join" ~> (report.printed /\ AllFinished))

\* the run reported with one combination failed and the others succeeded
C3_Witness ==
    /\ report.printed
    /\ Len(handles) = 3
    /\ Cardinality({k \in DOMAIN state : state[k] = "Failed"}) = 1
    /\ state[1] = "Failed"
    /\ \A k \in DOMAIN state : invocations[k] = 1

\* the failures the validator's outcomes determine
ExpectedFailures ==
    {[combination |-> combo, message |-> validator[combo].stderr] :
        combo \in {c \in cached_combinations : ~validator[c].success}}

\* C4: the reported failure list holds exactly one entry, combination and error
\* text, for each combination whose validator failed and none for the others,
\* whatever the interleaving; the run passes with exit status 0 if the list is
\* empty and exits non-zero otherwise.
C4_ReportIsFailures ==
    report.printed =>
        /\ Range(report.failures) = ExpectedFailures
        /\ Len(report.failures) = Cardinality(ExpectedFailures)
        /\ report.passed <=> (ExpectedFailures = {})
        /\ exit_code = 0 <=> (ExpectedFailures = {})
        /\ exit_code \in {0, 1}

\* three combinations on two lanes, the second one dispatched failed
C4_Witness ==
    /\ report.printed
    /\ project.configs.concurrency = 2
    /\ Len(handles) = 3
    /\ state = <<"Succeeded", "Failed", "Succeeded">>
    /\ Len(report.failures) = 1
    /\ report.failures[1].combination = handles[2]
    /\ exit_code = 1

\* the tasks that have completed
Completed == {k \in DOMAIN state : state[k] \in Finished}

\* the tasks that complete in this step
Completing == {k \in (DOMAIN state) \cap (DOMAIN state') :
                  state[k] \notin Finished /\ state'[k] \in Finished}

\* C15: the global progress counter moves by exactly one for each combination,
\* when it completes, succeeded or failed; it always equals the number of
\* combinations in Succeeded or Failed, and equals the number of combinations
\* when the report is produced.
C15_ProgressCountsCompleted ==
    /\ [][global_pb' = global_pb + Cardinality(Completing)
          /\ Cardinality(Completing) <= 1]_vars
    /\ [](global_pb = Cardinality(Completed))
    /\ [](report.printed => global_pb = Cardinality(cached_combinations))

\* the report of three combinations of which two failed: the counter is at 3
C15_Witness ==
    /\ report.printed
    /\ Cardinality(cached_combinations) = 3
    /\ Cardinality({k \in DOMAIN state : state[k] = "Failed"}) = 2
    /\ global_pb = 3

---------------------------------------------------------------------------
(* Claims about generate_combinations *)

Generated == pc = "cached" /\ path \in {"generated", "regenerated"}

\* a feature's dependency list: empty for a feature the map does not know
DepList(p, f) ==
    IF f \in DOMAIN p.dependencies THEN p.dependencies[f] ELSE <<>>

Strict == Range(project.features)

Extra == Range(project.extra_features)

\* the subset indices of the loop
SubsetIndices == 1..(2 ^ Len(project.features) - 1)

\* the pruned strict combinations that survive
Survivors == {filtered_combo(project, i) : i \in SubsetIndices} \ {<<>>}

\* C5: no generated combination contains a feature A (strict or extra) together
\* with a feature B of A's dependency list.
C5_NoDependencyTargetInside ==
    Generated =>
        \A combo \in Range(combinations) :
        \A A \in Range(combo) : \A B \in Range(combo) :
            A # B => B \notin DepsOf(project.dependencies, A)

NoDependencies ==
    \A f \in DOMAIN project.dependencies : project.dependencies[f] = <<>>

\* C6: with n strict features, no dependency and no extra feature the generator
\* returns exactly 2^n - 1 combinations, one per non-empty subset of the features,
\* each holding just the features of its subset.
C6_PowerSetWithoutDependencies ==
    (Generated /\ NoDependencies /\ Extra = {}) =>
        /\ Len(combinations) = 2 ^ Len(project.features) - 1
        /\ {Range(combo) : combo \in Range(combinations)} = (SUBSET Strict) \ {{}}
        /\ \A combo \in Range(combinations) : Len(combo) = Cardinality(Range(combo))

\* three strict features without dependencies gave seven combinations
C6_Witness ==
    /\ Generated /\ NoDependencies /\ Extra = {}
    /\ Len(project.features) = 3
    /\ Len(combinations) = 7

\* C7: for every extra feature E and every surviving pruned strict combination C
\* the output holds C with E appended, C alone and the combination of E alone;
\* E alone is there even with no strict feature.
C7_ExtrasAppendedAndAlone ==
    Generated =>
        /\ \A C \in Survivors : C \in Range(combinations)
        /\ \A E \in Extra :
              /\ <<E>> \in Range(combinations)
              /\ \A C \in Survivors : Append(C, E) \in Range(combinations)
        /\ (Strict = {} /\ Extra # {}) =>
              Range(combinations) = {<<E>> : E \in Extra}

\* strict "a", extra "b", no dependency: ["a","b"], ["a"], ["b"]
C7_Witness ==
    /\ Generated
    /\ project.features = <<<<"a">>>>
    /\ project.extra_features = <<<<"b">>>>
    /\ combinations = << <<<<"a">>, <<"b">>>>, <<<<"a">>>>, <<<<"b">>>> >>

\* the project of the scenario: strict "a" and "b", "a" depending on "b"
ADependsOnB ==
    /\ project.features = <<<<"a">>, <<"b">>>>
    /\ project.extra_features = <<>>
    /\ <<"a">> \in DOMAIN project.dependencies
    /\ project.dependencies[<<"a">>] = <<<<"b">>>>
    /\ \A f \in DOMAIN project.dependencies : f # <<"a">> => project.dependencies[f] = <<>>

\* C8: subset indices that prune to the same set of features give the same entry
\* sequence, the deduplicated set holds every generated combination once and no
\* two of its members have the same set of entries; strict {a, b} with a
\* depending on b gives exactly {[a], [b]}.
C8_DeduplicatedSet ==
    Generated =>
        /\ \A i1 \in SubsetIndices : \A i2 \in SubsetIndices :
              Range(filtered_combo(project, i1)) = Range(filtered_combo(project, i2))
                  => filtered_combo(project, i1) = filtered_combo(project, i2)
        /\ cached_combinations = Range(combinations)
        /\ \A c1 \in cached_combinations : \A c2 \in cached_combinations :
              Range(c1) = Range(c2) => c1 = c2
        /\ ADependsOnB => cached_combinations = {<<<<"a">>>>, <<<<"b">>>>}

\* the scenario ran: three pushed combinations collapsed to two
C8_Witness ==
    /\ Generated
    /\ ADependsOnB
    /\ Len(combinations) = 3
    /\ Cardinality(cached_combinations) = 2

\* the subset indices whose pruned combination is not empty
Surviving == {i \in SubsetIndices : filtered_combo(project, i) # <<>>}

\* C16: generate_combinations returns no empty combination; a subset index pruned
\* to nothing (a feature that lists itself, for one) pushes nothing, neither
\* alone nor with an extra feature: the output has one entry per surviving index
\* and one per surviving index and extra feature, and the extra features alone.
C16_NoEmptyCombination ==
    Generated =>
        /\ \A k \in DOMAIN combinations : combinations[k] # <<>>
        /\ Len(combinations) =
              Cardinality(Surviving) * (Len(project.extra_features) + 1)
                 + Len(project.extra_features)

\* strict "a" listing itself, extra "b": the output is ["b"] alone
C16_Witness ==
    /\ Generated
    /\ project.features = <<<<"a">>>>
    /\ project.extra_features = <<<<"b">>>>
    /\ DepList(project, <<"a">>) = <<<<"a">>>>
    /\ combinations = << <<<<"b">>>> >>

\* the features the subset index i selects
SubsetOf(i) ==
    {project.features[j + 1] : j \in {j \in 0..(Len(project.features) - 1) : Bit(i, j)}}

\* where a strict feature stands in the sorted Vec
Position(f) == CHOOSE k \in DOMAIN project.features : project.features[k] = f

\* the dependency targets of the features of F
Targets(F) == UNION {DepsOf(project.dependencies, g) : g \in F}

\* the features of the subset that no feature included before them lists
IncludedOf(i) ==
    CHOOSE I \in SUBSET SubsetOf(i) :
        \A f \in SubsetOf(i) :
            f \in I <=> \A g \in I : Position(g) < Position(f)
                                        => f \notin DepsOf(project.dependencies, g)

ExtraPlaces(combo) == {k \in DOMAIN combo : combo[k] \in Extra}

\* C20: a generated combination holds at most one extra feature; one that holds
\* none is a surviving pruned strict combination, and in one that holds an
\* extra feature the other entries are none at all or a surviving pruned strict
\* combination (the extra feature comes last).
C20_AtMostOneExtra ==
    Generated =>
        \A combo \in Range(combinations) :
            /\ Cardinality(ExtraPlaces(combo)) <= 1
            /\ ExtraPlaces(combo) = {} => combo \in Survivors
            /\ ExtraPlaces(combo) # {} =>
                  /\ ExtraPlaces(combo) = {Len(combo)}
                  /\ SubSeq(combo, 1, Len(combo) - 1) \in Survivors \cup {<<>>}

\* strict "a" with the extras "ab" and "b": each extra with ["a"] and alone
C20_Witness ==
    /\ Generated
    /\ project.features = <<<<"a">>>>
    /\ project.extra_features = <<<<"a", "b">>, <<"b">>>>
    /\ combinations = << <<<<"a">>, <<"a", "b">>>>, <<<<"a">>, <<"b">>>>, <<<<"a">>>>,
                         <<<<"a", "b">>>>, <<<<"b">>>> >>

---------------------------------------------------------------------------
(* Claims about the fingerprint and the cache across runs *)

\* RustProject::new of a run after the first
NewProjectStep == pc = "start" /\ pc' = "cache" /\ project.created

\* C9: a run whose strict features differ from the previous run's (one added,
\* removed or renamed), or in which a feature's dependency list differs,
\* computes another fingerprint, and so regenerates the combinations.  The
\* dependency lists compared are those of the features that are strict in both
\* runs, which the claim covers however "any feature" is read.
C9_ChangeChangesFingerprint ==
    [][(/\ NewProjectStep
        /\ \/ project'.features # project.features
           \/ \E f \in Range(project.features) \cap Range(project'.features) :
                 DepList(project', f) # DepList(project, f))
          => project'.hash # project.hash]_vars

\* C10: a run on unchanged inputs, in whatever order the features are declared,
\* computes the fingerprint of the run before, takes the cache-hit path,
\* executes the set the run before executed and stored, and neither regenerates
\* nor rewrites the cache file.
C10_UnchangedInputsHitCache ==
    [][last_edit = "none" =>
          /\ NewProjectStep => project'.hash = project.hash
          /\ (pc = "cache" /\ pc' = "cached") =>
                /\ path' = "hit"
                /\ cached_combinations' = cached_combinations
                /\ read_cache(cache_file').combinations = cached_combinations
                /\ cache_file' = cache_file
                /\ combinations' = combinations]_vars

\* the second of two runs on the same two strict features and an extra one hit
\* the cache
C10_Witness ==
    /\ last_edit = "none"
    /\ pc = "cached"
    /\ path = "hit"
    /\ Len(project.features) = 2
    /\ Cardinality(cached_combinations) >= 2
    /\ \E combo \in cached_combinations : Len(combo) = 2

\* the cache phase of a run that finds no cache file, or one of another fingerprint
StaleCachePhase ==
    /\ pc = "cache" /\ pc' = "cached"
    /\ \/ ~cache_file.exists
       \/ read_cache(cache_file).hash # project.hash

\* C11: when the cache file is absent or holds another fingerprint, the record
\* is replaced wholesale: after the cache phase the file holds the current
\* fingerprint and exactly the lines of the freshly generated deduplicated set,
\* and the run executes that set; nothing of the old record is kept.
C11_ReplacedWholesale ==
    [][StaleCachePhase =>
          LET fresh == Range(generate_combinations(project))
          IN  /\ cache_file'.exists
              /\ cache_file'.hash = project.hash
              /\ cache_file'.lines = {Join(combo) : combo \in fresh}
              /\ read_cache(cache_file').combinations = fresh
              /\ cached_combinations' = fresh]_vars

\* a run after an edit replaced a record by the single combination ["b"]
C11_Witness ==
    /\ pc = "cached"
    /\ path = "regenerated"
    /\ last_edit = "edited"
    /\ cache_file.hash = project.hash
    /\ cache_file.lines = {<<"b">>}
    /\ cached_combinations = {<<<<"b">>>>}

---------------------------------------------------------------------------
(* Claims about cache.rs *)

\* every name of the combination is non-empty and holds no whitespace
WhitespaceFree(combo) ==
    \A k \in DOMAIN combo :
        combo[k] # <<>> /\ \A j \in DOMAIN combo[k] : ~IsWhitespace(combo[k][j])

\* the file is what write_cache wrote for the fingerprint and the set of the state
Written ==
    \E order \in Orders(cached_combinations) :
        cache_file = write_cache_file(project.hash, order)

\* C12: for every fingerprint and every set of non-empty combinations of
\* whitespace-free names, read_cache of the file write_cache wrote returns the
\* same fingerprint and the same set of combinations, each with its entries in
\* their order.
C12_CacheRoundTrip ==
    (/\ pc = "done"
     /\ Written
     /\ \A combo \in cached_combinations : combo # <<>> /\ WhitespaceFree(combo))
        => cache_read = [kind |-> "Ok", hash |-> project.hash,
                         combinations |-> cached_combinations]

\* three combinations, ["a","b"] and ["b","a"] among them, written under the
\* fingerprint 1905 and read back
C12_Witness ==
    /\ pc = "done"
    /\ Written
    /\ project.hash = 1905
    /\ cached_combinations = {<<<<"a">>, <<"b">>>>, <<<<"b">>, <<"a">>>>, <<<<"a", "b">>>>}
    /\ cache_read.kind = "Ok"
    /\ cache_read.combinations = cached_combinations

\* the cache file cannot be opened, or its first line is missing or is not a
\* valid unsigned 64-bit number
CorruptCache ==
    \/ ~cache_file.exists
    \/ cache_file.text = <<>>
    \/ BadUtf8 \notin Range(Head(cache_file.text)) /\ ~ParseU64(Head(cache_file.text)).ok

\* C14: on a cache file that cannot be opened, or whose first line is missing or
\* is not a valid unsigned 64-bit number, read_cache returns an I/O error to its
\* caller (it ends in no other way) and returns no fingerprint or combinations.
C14_CorruptCacheIsError ==
    (pc = "done" /\ CorruptCache) => cache_read = ReadErr

---------------------------------------------------------------------------
(* Claims about the setup steps of main() *)

\* no task exists, so no validator has started and the progress bar has not moved
NothingStarted ==
    /\ handles = <<>>
    /\ \A k \in DOMAIN state : state[k] = "Pending" /\ invocations[k] = 0
    /\ global_pb = 0

\* the run ends in RustProject::new, the cache phase, the clean or the build
SetupFailure == pc \in {"start", "cache", "cached", "build"} /\ pc' = "exit"

\* C13: when a setup step fails (manifest or configuration unreadable or
\* malformed, cache file unreadable or corrupt, cache not writable, clean or
\* preliminary build failing) the run ends with a non-zero status and no
\* validator has started: no combination leaves Pending, then or later.
C13_SetupFailureAborts ==
    /\ [][SetupFailure => (exit_code' \in {1, 101} /\ NothingStarted')]_vars
    /\ []((pc = "exit" /\ ~report.printed) => (exit_code \in {1, 101} /\ NothingStarted))

\* `cargo clean` failed after a cache hit that had three combinations to run
C13_Witness ==
    /\ pc = "exit"
    /\ ~report.printed
    /\ exit_code = 1
    /\ project.configs.clean
    /\ path = "hit"
    /\ Cardinality(cached_combinations) = 3
    /\ NothingStarted

---------------------------------------------------------------------------
(* Claims about extract_dependencies *)

\* C17: the keys of the DependencyMap RustProject::new gets are features the
\* configuration knows (strict or extra) or the pseudo-feature default: a
\* manifest entry of an unknown feature is warned about and adds no key.
C17_KeysAreKnownFeatures ==
    [][(pc = "start" /\ pc' = "cache") =>
          LET known == Range(project'.features) \cup Range(project'.extra_features)
              lines == ManifestLines(SortedVec(DOMAIN manifest))
          IN  /\ DOMAIN project'.dependencies \subseteq (known \cup {Default})
              /\ \A f \in Range(Warnings(lines, known)) :
                    f \notin DOMAIN project'.dependencies]_vars

---------------------------------------------------------------------------
(* Claims about what a cache hit executes *)

\* C19: whatever was changed in the configuration and the manifest between the
\* runs (extra features added or removed, their dependencies changed), a run
\* that takes the cache-hit path executes the deduplicated set that
\* generate_combinations returns for its own strict features, extra features
\* and dependency map.
C19_HitExecutesCurrentSet ==
    (pc = "cached" /\ path = "hit") =>
        cached_combinations = Unique(generate_combinations(project))

===========================================================================
